---- MODULE Spec2Model ----
(***************************************************************************)
(* scripts/testPage.py: the OATH soft token test page generator.           *)
(*                                                                         *)
(* main() is one sequential procedure.  It is cut into steps at the calls  *)
(* that leave the process (file system, command lookup, the two external   *)
(* tools); the local code between two such calls belongs to the step that  *)
(* follows or precedes it.  The environment is the file system under the   *)
(* output directory and the set of installed executables.  File system     *)
(* faults of rmtree/mkdir are not modelled; faults of the two tools and of *)
(* the final write are.  PATH is taken to be set.                          *)
(***************************************************************************)
EXTENDS Integers, Sequences, FiniteSets, TLC

VARIABLES
    pc,            \* position of main()
    run,           \* number of the current run of the script (1, 2, ...)
    installed,     \* environment: set of executable files, as paths
    dirExists,     \* environment: does oath_test_page exist
    files,         \* environment: file name -> file, inside oath_test_page
    before,        \* history: `files` as the current run found it
    html_content,  \* local list html_content
    oathuri,       \* local: the command bound at line 95 (a path, or <<>>)
    qrencode,      \* local: the command bound at line 96 (a path, or <<>>)
    cnt,           \* local counter, also the number of processed rows
    columns,       \* local dict column -> list of figures
    account,       \* loop local
    uri,           \* loop local: stdout of the URI tool
    png,           \* loop local: PNG file name
    trace,         \* history: the calls that left the process, in order
    logged,        \* messages given to log.error
    exitStatus,    \* process exit status, -1 while running
    fault          \* the uncaught exception, "" when none

vars == <<pc, run, installed, dirExists, files, before, html_content, oathuri,
          qrencode, cnt, columns, account, uri, png, trace, logged,
          exitStatus, fault>>

----------------------------------------------------------------------------
(* Bounds of the model. *)

\* consecutive runs of the script in one behaviour
MaxRuns == 2

----------------------------------------------------------------------------
(* Module-level constants of the script. *)

SECRET == "HXDMVJECJJWSRB3HWIZR4IFUGFTMXBOZ"

\* rows are (mode, hash, factor, digits)
TEST_CASES ==
    << <<"TOTP", "SHA1",   "30", "6">>,
       <<"TOTP", "SHA1",   "30", "7">>,
       <<"TOTP", "SHA1",   "30", "8">>,
       <<"TOTP", "SHA1",   "60", "6">>,
       <<"TOTP", "SHA256", "30", "6">>,
       <<"TOTP", "SHA512", "30", "6">>,
       <<"HOTP", "SHA1",   "42", "6">>,
       <<"HOTP", "SHA1",   "42", "7">>,
       <<"HOTP", "SHA1",   "42", "8">>,
       <<"HOTP", "SHA256", "42", "6">>,
       <<"HOTP", "SHA512", "42", "6">> >>

\* COL2DIV, keyed 0..2
COL2DIV == [c \in 0..2 |->
              IF c = 0 THEN "column-left"
              ELSE IF c = 1 THEN "column-center" ELSE "column-right"]

\* an entry of html_content
Html(tag, text, figures) == [tag |-> tag, text |-> text, figures |-> figures]

\* the two header lines main() starts html_content with, lines 80-81
Heading == Html("h1", "oathuri - OATH soft token test inputs", <<>>)

CaptionLegend ==
    Html("h3", "Captions: [Type]-[Hash]-[OTP lenght]-[Time window/Counter]", <<>>)

----------------------------------------------------------------------------
(* Paths.  A path is a sequence of components. *)

Getcwd == <<"proj", "scripts">>

OsPathJoin(p, q) == p \o q

RECURSIVE Normpath(_)
Normpath(p) ==
    IF \E i \in 1..(Len(p) - 1) : p[i] # ".." /\ p[i + 1] = ".."
    THEN LET i == CHOOSE j \in 1..(Len(p) - 1) : p[j] # ".." /\ p[j + 1] = ".."
         IN  Normpath(SubSeq(p, 1, i - 1) \o SubSeq(p, i + 2, Len(p)))
    ELSE p

\* output_path, line 84
OutputPath == OsPathJoin(Getcwd, <<"oath_test_page">>)

\* os.getenv('PATH').split(':'), one system directory
EnvPath == << <<"usr", "bin">> >>

\* PATHS after line 91
PATHS == Append(EnvPath, Normpath(OsPathJoin(Getcwd, <<"..", "bin">>)))

ToolNames == {"oathuri", "qrencode"}

\* every place an executable of either name can be installed
ExecutablePlaces == {Append(PATHS[i], t) : i \in 1..Len(PATHS), t \in ToolNames}

\* sh's which(): the first directory of `paths` holding `name`, <<>> when none
Which(name, paths, inst) ==
    IF \E i \in 1..Len(paths) : Append(paths[i], name) \in inst
    THEN LET i == CHOOSE j \in 1..Len(paths) :
                     /\ Append(paths[j], name) \in inst
                     /\ \A k \in 1..(j - 1) : Append(paths[k], name) \notin inst
         IN  Append(paths[i], name)
    ELSE <<>>

\* sh.Command(name, PATHS), lines 95-96
ShCommand(name, inst) == Which(name, PATHS, inst)

\* the attribute lookup sh.qrencode of line 126: sh resolves it on the
\* process environment's PATH
ShAttribute(name, inst) == Which(name, EnvPath, inst)

----------------------------------------------------------------------------
(* String formatting of the loop body. *)

\* line 111 with the digit count left out of the label
AccountWithoutDigits(mode, algo, factor, digit) ==
    mode \o "-" \o algo \o "-" \o factor

\* line 111 with the fields in table order
AccountInTableOrder(mode, algo, factor, digit) ==
    mode \o "-" \o algo \o "-" \o factor \o "-" \o digit

\* '{}-{}-{}-{}'.format(mode, algo, digit, factor), line 111
Account(mode, algo, factor, digit) ==
    mode \o "-" \o algo \o "-" \o digit \o "-" \o factor

\* line 116 without the mode test
FactorFlagAlwaysP(mode) == "-" \o "p"

\* '-{}'.format('p' if mode == 'TOTP' else 'c'), line 116
FactorFlag(mode) == "-" \o (IF mode = "TOTP" THEN "p" ELSE "c")

\* args, lines 112-121
Args(mode, algo, factor, digit) ==
    <<"-0", "-m", mode, "-d", digit, FactorFlag(mode), factor, "-h", algo,
      SECRET, Account(mode, algo, factor, digit), "test">>

\* line 125 with the file name not formatted from the account
PngNameFixed(acc) == "qrcode.png"

\* '{}.png'.format(account), line 125
PngName(acc) == acc \o ".png"

\* lines 130-133 with the account as img src
FigureWithoutExtension(p, acc) == [img |-> acc, figcaption |-> acc]

\* the figure appended to a column, lines 130-133
Figure(p, acc) == [img |-> p, figcaption |-> acc]

\* columns[cnt % 3], line 129
ColumnOf(c) == c % 3

\* line 108 iterating reversed(TEST_CASES)
CaseAtReversed(c) == TEST_CASES[Len(TEST_CASES) - c]

\* the row the for loop of line 108 hands out in iteration c (from 0)
CaseAt(c) == TEST_CASES[c + 1]

\* line 99 as sys.exit(0)
ExitCodeSuccess == 0 % 256

\* exit status of sys.exit(-1), as the parent process sees it
ExitCode == (-1) % 256

\* exit status of the interpreter after an uncaught exception
UncaughtStatus == 1

----------------------------------------------------------------------------
(* The environment: files of the output directory, the two tools. *)

File(kind, gen, complete, data) ==
    [kind |-> kind, gen |-> gen, complete |-> complete, data |-> data]

NoFiles == [n \in {} |-> File("", 0, TRUE, <<>>)]

WriteFile(fs, name, f) ==
    [n \in DOMAIN fs \cup {name} |-> IF n = name THEN f ELSE fs[n]]

\* lines 85-87 without the rmtree
CleanOutputKeeps(exists, fs) == fs

\* lines 85-87: rmtree when the directory exists, then mkdir
CleanOutput(exists, fs) == IF exists THEN NoFiles ELSE fs

\* the last component of a path under output_path
Basename(path) == path[Len(path)]

\* stdout of the URI tool: the URI of its arguments
OathuriOutput(args) == <<"otpauth">> \o args

\* the command line of line 126
QrencodeArgs(path, text) == <<"-s", "5", "-o", path, text>>

\* a call that left the process
Call(op, exe, args, ok) == [op |-> op, exe |-> exe, args |-> args, ok |-> ok]

\* the loop body and the write wrapped in try/except, the run going on
UncaughtSwallowed == "loop"

\* what an uncaught exception does to a run: the interpreter stops there
Uncaught == "fault"

\* names a previous use of the directory may have left behind
StaleNames == {"index.html", "TOTP-SHA1-6-30.png", "notes.txt"}

StaleFile(n) ==
    File(IF n = "index.html" THEN "html"
         ELSE IF n = "notes.txt" THEN "text" ELSE "png", 0, TRUE, <<>>)

NoColumns == [c \in 0..2 |-> <<>>]

----------------------------------------------------------------------------
(* The state before main() runs. *)

Init ==
    /\ pc = "main"
    /\ run = 1
    /\ installed \in SUBSET ExecutablePlaces
    /\ dirExists \in BOOLEAN
    /\ \E S \in SUBSET StaleNames :
          /\ (~dirExists => S = {})
          /\ files = [n \in S |-> StaleFile(n)]
    /\ before = files
    /\ html_content = <<>>
    /\ oathuri = <<>>
    /\ qrencode = <<>>
    /\ cnt = 0
    /\ columns = NoColumns
    /\ account = ""
    /\ uri = <<>>
    /\ png = ""
    /\ trace = <<>>
    /\ logged = <<>>
    /\ exitStatus = -1
    /\ fault = ""

----------------------------------------------------------------------------
(* The steps of main(). *)

\* lines 79-81
Main ==
    /\ pc = "main"
    /\ html_content' = <<Heading, CaptionLegend>>
    /\ pc' = "clean"
    /\ UNCHANGED <<run, installed, dirExists, files, before, oathuri, qrencode,
                   cnt, columns, account, uri, png, trace, logged, exitStatus,
                   fault>>

\* lines 83-87
Clean ==
    /\ pc = "clean"
    /\ files' = CleanOutput(dirExists, files)
    /\ dirExists' = TRUE
    /\ trace' = Append(trace, Call("clean", <<>>, <<OutputPath>>, TRUE))
    /\ pc' = "resolve"
    /\ UNCHANGED <<run, installed, before, html_content, oathuri, qrencode,
                   cnt, columns, account, uri, png, logged, exitStatus, fault>>

\* lines 89-96 and 101-106, both commands found
GetCommands ==
    /\ pc = "resolve"
    /\ ShCommand("oathuri", installed) # <<>>
    /\ ShCommand("qrencode", installed) # <<>>
    /\ oathuri' = ShCommand("oathuri", installed)
    /\ qrencode' = ShCommand("qrencode", installed)
    /\ trace' = trace \o <<Call("which", <<>>, <<"oathuri">>, TRUE),
                           Call("which", <<>>, <<"qrencode">>, TRUE)>>
    /\ cnt' = 0
    /\ columns' = NoColumns
    /\ pc' = "loop"
    /\ UNCHANGED <<run, installed, dirExists, files, before, html_content,
                   account, uri, png, logged, exitStatus, fault>>

\* lines 89-99, sh.CommandNotFound caught: the first failing lookup ends the
\* try block
CommandNotFoundExit ==
    /\ pc = "resolve"
    /\ \/ ShCommand("oathuri", installed) = <<>>
       \/ ShCommand("qrencode", installed) = <<>>
    /\ oathuri' = ShCommand("oathuri", installed)
    /\ trace' = IF ShCommand("oathuri", installed) = <<>>
                THEN Append(trace, Call("which", <<>>, <<"oathuri">>, FALSE))
                ELSE trace \o <<Call("which", <<>>, <<"oathuri">>, TRUE),
                                Call("which", <<>>, <<"qrencode">>, FALSE)>>
    /\ logged' = Append(logged,
                   "\"oathuri\" or \"qrencode\" were not found, cannot generate!")
    /\ exitStatus' = ExitCode
    /\ pc' = "exited"
    /\ UNCHANGED <<run, installed, dirExists, files, before, html_content,
                   qrencode, cnt, columns, account, uri, png, fault>>

\* lines 108-122, the URI tool returns 0
InvokeOathuri ==
    /\ pc = "loop"
    /\ cnt < Len(TEST_CASES)
    /\ LET tc == CaseAt(cnt)
           a  == Args(tc[1], tc[2], tc[3], tc[4])
       IN  /\ account' = Account(tc[1], tc[2], tc[3], tc[4])
           /\ trace' = Append(trace, Call("run", oathuri, a, TRUE))
           /\ uri' = OathuriOutput(a)
    /\ pc' = "qrencode"
    /\ UNCHANGED <<run, installed, dirExists, files, before, html_content,
                   oathuri, qrencode, cnt, columns, png, logged, exitStatus,
                   fault>>

\* lines 108-122, the URI tool fails: sh raises ErrorReturnCode
OathuriFails ==
    /\ pc = "loop"
    /\ cnt < Len(TEST_CASES)
    /\ LET tc == CaseAt(cnt)
           a  == Args(tc[1], tc[2], tc[3], tc[4])
       IN  /\ account' = Account(tc[1], tc[2], tc[3], tc[4])
           /\ trace' = Append(trace, Call("run", oathuri, a, FALSE))
    /\ fault' = "ErrorReturnCode"
    /\ exitStatus' = UncaughtStatus
    /\ pc' = Uncaught
    /\ UNCHANGED <<run, installed, dirExists, files, before, html_content,
                   oathuri, qrencode, cnt, columns, uri, png, logged>>

\* lines 125-126, the QR tool returns 0 and has written its output file
InvokeQrencode ==
    /\ pc = "qrencode"
    /\ ShAttribute("qrencode", installed) # <<>>
    /\ png' = PngName(account)
    /\ LET path == OsPathJoin(OutputPath, <<png'>>)
       IN  /\ trace' = Append(trace, Call("run", ShAttribute("qrencode", installed),
                                          QrencodeArgs(path, uri), TRUE))
           /\ files' = WriteFile(files, Basename(path),
                                 File("png", run, TRUE, uri))
    /\ pc' = "figure"
    /\ UNCHANGED <<run, installed, dirExists, before, html_content, oathuri,
                   qrencode, cnt, columns, account, uri, logged, exitStatus,
                   fault>>

\* lines 125-126, the QR tool fails: sh raises ErrorReturnCode.  The tool may
\* fail before or after it created its output file.
QrencodeFails ==
    /\ pc = "qrencode"
    /\ ShAttribute("qrencode", installed) # <<>>
    /\ png' = PngName(account)
    /\ LET path == OsPathJoin(OutputPath, <<png'>>)
       IN  /\ trace' = Append(trace, Call("run", ShAttribute("qrencode", installed),
                                          QrencodeArgs(path, uri), FALSE))
           /\ \/ files' = files
              \/ files' = WriteFile(files, Basename(path),
                                    File("png", run, FALSE, <<>>))
    /\ fault' = "ErrorReturnCode"
    /\ exitStatus' = UncaughtStatus
    /\ pc' = Uncaught
    /\ UNCHANGED <<run, installed, dirExists, before, html_content, oathuri,
                   qrencode, cnt, columns, account, uri, logged>>

\* lines 125-126, sh.qrencode is not found: sh raises CommandNotFound outside
\* the try block
QrencodeNotFound ==
    /\ pc = "qrencode"
    /\ ShAttribute("qrencode", installed) = <<>>
    /\ png' = PngName(account)
    /\ fault' = "CommandNotFound"
    /\ exitStatus' = UncaughtStatus
    /\ pc' = Uncaught
    /\ UNCHANGED <<run, installed, dirExists, files, before, html_content,
                   oathuri, qrencode, cnt, columns, account, uri, trace,
                   logged>>

\* lines 128-135
AddFigure ==
    /\ pc = "figure"
    /\ columns' = [columns EXCEPT ![ColumnOf(cnt)] =
                       Append(@, Figure(png, account))]
    /\ cnt' = cnt + 1
    /\ pc' = "loop"
    /\ UNCHANGED <<run, installed, dirExists, files, before, html_content,
                   oathuri, qrencode, account, uri, png, trace, logged,
                   exitStatus, fault>>

\* the three entries lines 139-141 append for column c
ColumnHtml(c, figures) ==
    <<Html("div", COL2DIV[c], <<>>), Html("figures", "", figures),
      Html("/div", "", <<>>)>>

\* lines 137-141, after the last row
AppendColumns ==
    /\ pc = "loop"
    /\ cnt >= Len(TEST_CASES)
    /\ html_content' = html_content \o ColumnHtml(0, columns[0])
                          \o ColumnHtml(1, columns[1]) \o ColumnHtml(2, columns[2])
    /\ pc' = "save"
    /\ UNCHANGED <<run, installed, dirExists, files, before, oathuri, qrencode,
                   cnt, columns, account, uri, png, trace, logged, exitStatus,
                   fault>>

IndexPath == OsPathJoin(OutputPath, <<"index.html">>)

\* lines 143-145, then main() returns and the interpreter exits with 0
SaveContent ==
    /\ pc = "save"
    /\ files' = WriteFile(files, Basename(IndexPath),
                          File("html", run, TRUE, html_content))
    /\ trace' = Append(trace, Call("write", <<>>, <<IndexPath>>, TRUE))
    /\ exitStatus' = 0
    /\ pc' = "done"
    /\ UNCHANGED <<run, installed, dirExists, before, html_content, oathuri,
                   qrencode, cnt, columns, account, uri, png, logged, fault>>

\* lines 143-145, open() or write() raises OSError: open() failing leaves no
\* file, write() failing leaves the file open() created
SaveFails ==
    /\ pc = "save"
    /\ \/ files' = files
       \/ files' = WriteFile(files, Basename(IndexPath),
                             File("html", run, FALSE, <<>>))
    /\ trace' = Append(trace, Call("write", <<>>, <<IndexPath>>, FALSE))
    /\ fault' = "OSError"
    /\ exitStatus' = UncaughtStatus
    /\ pc' = Uncaught
    /\ UNCHANGED <<run, installed, dirExists, before, html_content, oathuri,
                   qrencode, cnt, columns, account, uri, png, logged>>

\* lines 148-149: the script is started again in the same working directory
Restart ==
    /\ pc \in {"done", "exited", "fault"}
    /\ run < MaxRuns
    /\ run' = run + 1
    /\ before' = files
    /\ pc' = "main"
    /\ html_content' = <<>>
    /\ oathuri' = <<>>
    /\ qrencode' = <<>>
    /\ cnt' = 0
    /\ columns' = NoColumns
    /\ account' = ""
    /\ uri' = <<>>
    /\ png' = ""
    /\ trace' = <<>>
    /\ logged' = <<>>
    /\ exitStatus' = -1
    /\ fault' = ""
    /\ UNCHANGED <<installed, dirExists, files>>

Next ==
    \/ Main
    \/ Clean
    \/ GetCommands
    \/ CommandNotFoundExit
    \/ InvokeOathuri
    \/ OathuriFails
    \/ InvokeQrencode
    \/ QrencodeFails
    \/ QrencodeNotFound
    \/ AddFigure
    \/ AppendColumns
    \/ SaveContent
    \/ SaveFails
    \/ Restart

Spec == Init /\ [][Next]_vars

----------------------------------------------------------------------------
(* Vocabulary of the properties. *)

N == Len(TEST_CASES)

\* the fields of a table row, by meaning
Mode(i) == TEST_CASES[i][1]

Hash(i) == TEST_CASES[i][2]

Factor(i) == TEST_CASES[i][3]

Digits(i) == TEST_CASES[i][4]

\* the caption legend of the page, field by field
LegendFields == <<"Type", "Hash", "OTP lenght", "Time window/Counter">>

\* the value of row i a legend field stands for
LegendValue(i, field) ==
    IF field = "Type" THEN Mode(i)
    ELSE IF field = "Hash" THEN Hash(i)
    ELSE IF field = "OTP lenght" THEN Digits(i)
    ELSE Factor(i)

\* the label of row i, its fields in legend order
Label(i) ==
    LegendValue(i, LegendFields[1]) \o "-" \o LegendValue(i, LegendFields[2])
        \o "-" \o LegendValue(i, LegendFields[3])
        \o "-" \o LegendValue(i, LegendFields[4])

LabelPng(i) == Label(i) \o ".png"

IsTool(c, t) == c.op = "run" /\ c.exe # <<>> /\ c.exe[Len(c.exe)] = t

ToolCalls(t) == SelectSeq(trace, LAMBDA c : IsTool(c, t))

OkCalls(t) == SelectSeq(trace, LAMBDA c : IsTool(c, t) /\ c.ok)

PngFiles == {n \in DOMAIN files : files[n].kind = "png"}

\* the figures of a list of html entries, column after column
RECURSIVE FiguresOf(_)
FiguresOf(html) ==
    IF html = <<>> THEN <<>> ELSE Head(html).figures \o FiguresOf(Tail(html))

\* the figures of the index.html on disk
PageFigures == FiguresOf(files["index.html"].data)

\* the figure main() recorded for row k (k <= cnt)
RecordedFigure(k) == columns[(k - 1) % 3][((k - 1) \div 3) + 1]

Locatable(t) == \E i \in 1..Len(PATHS) : Append(PATHS[i], t) \in installed

BothLocatable == Locatable("oathuri") /\ Locatable("qrencode")

----------------------------------------------------------------------------
(* Properties. *)

\* C1: after a run that completes without a fault the output directory holds
\* exactly one PNG per row of TEST_CASES (11, none missing, none shared) plus
\* index.html, and index.html holds exactly one figure per row.
C1_OnePngAndCaptionPerCase ==
    pc = "done" =>
        /\ "index.html" \in DOMAIN files
        /\ files["index.html"].kind = "html"
        /\ DOMAIN files = PngFiles \cup {"index.html"}
        /\ Cardinality(PngFiles) = N
        /\ N = 11
        /\ \A i \in 1..N : LabelPng(i) \in PngFiles
        /\ Len(PageFigures) = N
        /\ \A i \in 1..N :
              Cardinality({k \in 1..Len(PageFigures) :
                              PageFigures[k].figcaption = Label(i)}) = 1

C1_Witness ==
    /\ pc = "done"
    /\ run = 1
    /\ Cardinality(DOMAIN files) = 12

\* C2: when a tool cannot be located the run logs an error and exits with a
\* non-zero status at once: no tool is invoked, no PNG and no index.html is
\* written, the output directory exists and is empty.
C2_MissingToolExits ==
    /\ (pc \notin {"main", "clean", "resolve"} /\ ~BothLocatable) =>
          /\ pc = "exited"
          /\ exitStatus \in 1..255
          /\ Len(logged) = 1
          /\ fault = ""
          /\ \A i \in 1..Len(trace) : trace[i].op # "run" /\ trace[i].op # "write"
          /\ dirExists
          /\ DOMAIN files = {}
    /\ pc = "exited" => ~BothLocatable

C2_Witness ==
    /\ pc = "exited"
    /\ Locatable("oathuri")
    /\ ~Locatable("qrencode")
    /\ DOMAIN before = StaleNames

\* C3: the output directory is recreated fresh on each run: whatever it held
\* before, no file from before the run survives the clearing step, and the
\* file names after a completed run are the same whatever the prior state.
C3_RecreatedFresh ==
    /\ pc \notin {"main", "clean"} =>
          /\ dirExists
          /\ \A n \in DOMAIN files : files[n].gen = run
    /\ pc = "done" =>
          DOMAIN files = {LabelPng(i) : i \in 1..N} \cup {"index.html"}

C3_Witness ==
    /\ pc = "done"
    /\ run = 2
    /\ DOMAIN before = DOMAIN files

\* C4: the label is unique across TEST_CASES: no two rows give the same label
\* or PNG file name, and no PNG written for one row is overwritten by a later
\* one.
C4_LabelsUnique ==
    LET o == ToolCalls("oathuri")
        q == OkCalls("qrencode")
    IN  /\ \A i, j \in 1..Len(o) : i # j => o[i].args[11] # o[j].args[11]
        /\ \A i, j \in 1..Len(q) :
              i # j => q[i].args[4] # q[j].args[4]
        /\ Cardinality({n \in PngFiles : files[n].gen = run /\ files[n].complete})
              = Len(q)

C4_Witness ==
    /\ pc = "loop"
    /\ cnt = N
    /\ Len(OkCalls("qrencode")) = N

\* C5: both executables are resolved on the extended search path and every
\* invocation runs the executable resolved that way; whenever both tools are
\* locatable on the extended search path no invocation fails because the
\* command is not found.
C5_ExtendedPathUsed ==
    /\ \A i \in 1..Len(trace) :
          /\ IsTool(trace[i], "oathuri") => trace[i].exe = oathuri
          /\ IsTool(trace[i], "qrencode") => trace[i].exe = qrencode
    /\ BothLocatable => fault # "CommandNotFound"

\* C6: after a completed run every img src of index.html is a bare file name
\* naming a PNG of the output directory that the QR tool wrote in this run,
\* and every PNG of the directory is referenced.
C6_ImagesResolve ==
    pc = "done" =>
        /\ \A k \in 1..Len(PageFigures) :
              LET src == PageFigures[k].img
              IN  /\ src \in PngFiles
                  /\ files[src].gen = run
                  /\ files[src].complete
                  /\ \E c \in 1..Len(trace) :
                        /\ IsTool(trace[c], "qrencode")
                        /\ trace[c].ok
                        /\ trace[c].args[4] =
                              SubSeq(IndexPath, 1, Len(IndexPath) - 1) \o <<src>>
        /\ \A n \in PngFiles : \E k \in 1..Len(PageFigures) : PageFigures[k].img = n

C6_Witness ==
    /\ pc = "done"
    /\ "index.html" \in DOMAIN before
    /\ Len(PageFigures) = N

\* C7: for every row the same label is the account argument of the URI tool,
\* the stem of the PNG file name given to the QR tool and the figure caption;
\* its fields are mode, hash, digit count, factor, the order of the legend.
C7_SameLabelEverywhere ==
    LET o == ToolCalls("oathuri")
        q == ToolCalls("qrencode")
    IN  /\ \A k \in 1..Len(o) : o[k].args[11] = Label(k)
        /\ \A k \in 1..Len(q) : q[k].args[4] = OutputPath \o <<Label(k) \o ".png">>
        /\ pc \in {"loop", "figure", "qrencode", "save", "done"} =>
              \A k \in 1..cnt : /\ RecordedFigure(k).figcaption = Label(k)
                                /\ RecordedFigure(k).img = Label(k) \o ".png"
        /\ pc \notin {"main"} =>
              html_content[2].text =
                  "Captions: [" \o LegendFields[1] \o "]-[" \o LegendFields[2]
                     \o "]-[" \o LegendFields[3] \o "]-[" \o LegendFields[4] \o "]"
        /\ \A i \in 1..N : Label(i) =
              Mode(i) \o "-" \o Hash(i) \o "-" \o Digits(i) \o "-" \o Factor(i)

C7_Witness ==
    /\ pc = "loop"
    /\ cnt = 8
    /\ RecordedFigure(8).figcaption = "HOTP-SHA1-7-42"

\* the call the fixed order puts at position i of a run's calls
ExpectedCall(i) ==
    IF i = 1 THEN "clean"
    ELSE IF i \in {2, 3} THEN "which"
    ELSE IF i = 4 + 2 * N THEN "write"
    ELSE IF (i - 4) % 2 = 0 THEN "oathuri" ELSE "qrencode"

\* the row the call at position i (3 < i < 4 + 2 * N) belongs to
RowOfCall(i) == ((i - 4) \div 2) + 1

\* C8: a run follows one fixed order: clear the directory, resolve the two
\* tools, then row after row in table order the URI tool, the QR tool on that
\* invocation's output, the caption; index.html is written once, after the QR
\* tool ran for every row.
C8_FixedLinearOrder ==
    /\ Len(trace) <= 4 + 2 * N
    /\ \A i \in 1..Len(trace) :
          LET c == trace[i]
              e == ExpectedCall(i)
          IN  /\ i < Len(trace) => c.ok
              /\ e \in {"clean", "which", "write"} => c.op = e
              /\ i = 2 => c.args = <<"oathuri">>
              /\ i = 3 => c.args = <<"qrencode">>
              /\ e = "oathuri" =>
                    /\ IsTool(c, "oathuri")
                    /\ c.args[3]  = Mode(RowOfCall(i))
                    /\ c.args[9]  = Hash(RowOfCall(i))
                    /\ c.args[7]  = Factor(RowOfCall(i))
                    /\ c.args[5]  = Digits(RowOfCall(i))
              /\ e = "qrencode" =>
                    /\ IsTool(c, "qrencode")
                    /\ c.args[5] = OathuriOutput(trace[i - 1].args)
                    /\ (i = Len(trace) /\ pc = "figure") => c.args[5] = uri
    /\ pc \in {"loop", "save", "done"} => cnt = Len(OkCalls("qrencode"))
    /\ pc = "figure" => cnt + 1 = Len(OkCalls("qrencode"))
    /\ pc \in {"loop", "figure", "save", "done"} =>
          Len(columns[0]) + Len(columns[1]) + Len(columns[2]) = cnt
    /\ ("index.html" \in DOMAIN files /\ files["index.html"].gen = run) =>
          /\ Len(OkCalls("qrencode")) = N
          /\ Len(trace) = 4 + 2 * N
          /\ pc \in {"done", "fault"}

C8_Witness ==
    /\ pc = "done"
    /\ Len(trace) = 4 + 2 * N
    /\ trace[Len(trace)].op = "write"
    /\ run = 2

\* C9: the URI tool's command line gives the mode under -m, the digit count
\* under -d, the hash under -h, the factor under -p exactly for TOTP and under
\* -c otherwise, then the shared secret, the label and the issuer "test".
C9_UriCommandLine ==
    LET o == ToolCalls("oathuri")
    IN  \A k \in 1..Len(o) :
           LET a == o[k].args
           IN  /\ Len(a) = 12
               /\ \E i \in 1..8 : a[i] = "-m" /\ a[i + 1] = Mode(k)
               /\ \E i \in 1..8 : a[i] = "-d" /\ a[i + 1] = Digits(k)
               /\ \E i \in 1..8 : a[i] = "-h" /\ a[i + 1] = Hash(k)
               /\ (Mode(k) = "TOTP") <=>
                     \E i \in 1..8 : a[i] = "-p" /\ a[i + 1] = Factor(k)
               /\ (Mode(k) # "TOTP") <=>
                     \E i \in 1..8 : a[i] = "-c" /\ a[i + 1] = Factor(k)
               /\ Mode(k) = "TOTP" => \A i \in 1..12 : a[i] # "-c"
               /\ Mode(k) = "HOTP" => \A i \in 1..12 : a[i] # "-p"
               /\ a[10] = "HXDMVJECJJWSRB3HWIZR4IFUGFTMXBOZ"
               /\ a[11] = Label(k)
               /\ a[12] = "test"

C9_Witness ==
    /\ pc = "qrencode"
    /\ cnt = 6
    /\ trace[Len(trace)].args[3] = "HOTP"
    /\ trace[Len(trace)].args[6] = "-c"

\* a call of this run failed, or an exception is pending
SomethingFailed ==
    \/ fault # ""
    \/ \E i \in 1..Len(trace) : trace[i].op \in {"run", "write"} /\ ~trace[i].ok

\* the fault came up while a row was being processed
FaultInRow == pc = "fault" /\ fault \in {"ErrorReturnCode", "CommandNotFound"}

\* C10 as stated: a tool or write failure is unhandled; when it occurs while
\* row k is processed no later row is processed, index.html is never written
\* and the directory holds exactly the PNGs of the rows completed before k.
C10_FaultLeavesExactlyCompleted ==
    /\ SomethingFailed => pc = "fault" /\ exitStatus \in 1..255
    /\ FaultInRow =>
          /\ Len(ToolCalls("oathuri")) = cnt + 1
          /\ Len(ToolCalls("qrencode")) <= cnt + 1
          /\ "index.html" \notin DOMAIN files
          /\ DOMAIN files = {LabelPng(i) : i \in 1..cnt}

\* C10 amended: as above, but the directory holds the PNGs of the rows
\* completed before k and, when the QR tool failed for row k after creating
\* its output file, also that incomplete file; nothing else.
C10_FaultLeavesCompletedAndMaybePartial ==
    /\ SomethingFailed =>
          /\ pc = "fault"
          /\ exitStatus \in 1..255
          /\ logged = <<>>
          /\ \A i \in 1..(Len(trace) - 1) : trace[i].ok
    /\ FaultInRow =>
          /\ Len(ToolCalls("oathuri")) = cnt + 1
          /\ Len(ToolCalls("qrencode")) <= cnt + 1
          /\ "index.html" \notin DOMAIN files
          /\ {LabelPng(i) : i \in 1..cnt} \subseteq DOMAIN files
          /\ DOMAIN files \subseteq {LabelPng(i) : i \in 1..(cnt + 1)}
          /\ \A i \in 1..cnt : files[LabelPng(i)].complete
          /\ LabelPng(cnt + 1) \in DOMAIN files =>
                /\ ~files[LabelPng(cnt + 1)].complete
                /\ IsTool(trace[Len(trace)], "qrencode")
                /\ ~trace[Len(trace)].ok

C10_Witness ==
    /\ pc = "fault"
    /\ fault = "ErrorReturnCode"
    /\ cnt = 4
    /\ Cardinality(DOMAIN files) = 5
    /\ ~files[LabelPng(5)].complete

====
